---------------------------- MODULE Spec2Model ----------------------------
(***************************************************************************)
(* A model of the Game of Life module of clean-arch-kata-ts: the board     *)
(* model, the rule engine and its parser, the two advance strategies and   *)
(* the simulation driver (lifeImpl with Simulation.checkCompletion).       *)
(*                                                                         *)
(* Representation of values the code keeps as closures or host values:     *)
(*  - a Board (a function Point -> CellState) is kept extensionally as     *)
(*    [bg, ex]: the state `bg` it has at all but finitely many points and  *)
(*    the finite set `ex` of points where it has the other state; At(b,p)  *)
(*    is b(p).  Every board built from emptyBoard, birth and the advance   *)
(*    strategies is of this kind (the patterns sine, parabola and ring,    *)
(*    which are drawn with floating point, are left out).                  *)
(*  - a bigint is kept as its binary digits without leading zeros.         *)
(*  - a string is a sequence of one-character strings.                     *)
(*  - an Option is [tag |-> "none"] or [tag |-> "some", value |-> v].      *)
(*                                                                         *)
(* Specifications: Spec is a run of lifeImpl and SpecLive the same run     *)
(* under fairness; SpecAdvance iterates the two advance strategies side    *)
(* by side; SpecParse is one call of the rule parser; SpecBoard is one     *)
(* call of a board function; SpecHistory is checkCompletion over a stream  *)
(* of boards of a given period.                                            *)
(***************************************************************************)
EXTENDS Integers, Sequences, FiniteSets, TLC

(***************************************************************************)
(* Bounds of the model.                                                    *)
(***************************************************************************)
\* largest side of the viewing window of a driver run
MaxSide == 5
\* largest side of the window the array strategy is compared on
MaxStoreSide == 3
\* generations the pure advance strategies are iterated for
MaxGen == 4
\* largest --max-turns of a driver run
MaxTurnsBound == 4
\* largest --cell-count of a driver run
MaxCells == 4
\* most cells of a window the board functions are applied on
MaxArea == 4
\* elements of a stream given to checkCompletion on its own
MaxFeed == 210
\* cells of the window of such a stream
HistBits == 7
\* most digits in a well-formed rule string given to the parser
MaxDigits == 3
\* longest arbitrary string given to the parser
MaxNoiseLen == 4

\* keypresses an editing session receives
MaxKeys == 4

(***************************************************************************)
(* Option, CellState, Point                                                *)
(***************************************************************************)
None == [tag |-> "none"]

Some(v) == [tag |-> "some", value |-> v]

isNone(o) == o.tag = "none"

isSome(o) == o.tag = "some"

Living == "living"

Dead == "dead"

CellState == {Living, Dead}

Point(x, y) == [x |-> x, y |-> y]

eqPoint(p1, p2) == p1.x = p2.x /\ p1.y = p2.y

addPoint(p1, p2) == [x |-> p1.x + p2.x, y |-> p1.y + p2.y]

\* effect/Array range: the integers start..end, or [start] when start > end
range(start, end) ==
    IF start <= end THEN [i \in 1..(end - start + 1) |-> start + i - 1]
    ELSE <<start>>

SeqToSet(s) == {s[i] : i \in DOMAIN s}

(***************************************************************************)
(* Boards                                                                  *)
(***************************************************************************)
Other(c) == IF c = Living THEN Dead ELSE Living

At(b, p) == IF p \in b.ex THEN Other(b.bg) ELSE b.bg

\* the points within one step of a point of S
Grow(S) ==
    {[x |-> p.x + dx, y |-> p.y + dy] : p \in S, dx \in {-1, 0, 1}, dy \in {-1, 0, 1}}

Max(S) == CHOOSE m \in S : \A n \in S : n <= m

\* a point more than one step beyond every point of S
Far(S) == [x |-> Max({p.x : p \in S} \cup {0}) + 2, y |-> 0]

\* the points a closure that is constant outside `region` is evaluated at
Sample(region) == region \cup {Far(region)}

\* The board of a closure that is constant outside `region`, from its values
\* `cells` on Sample(region).
MkBoard(region, cells) ==
    LET bg == cells[Far(region)]
    IN  [bg |-> bg, ex |-> {p \in region : cells[p] # bg}]

constantBoard(c) == [bg |-> c, ex |-> {}]

\* the closure of birth answering Dead wherever it is not asked about p
birthCellForgetting(b, p, p2) == IF eqPoint(p, p2) THEN Living ELSE Dead

birthCell(b, p, p2) == IF eqPoint(p, p2) THEN Living ELSE At(b, p2)

birth(b, p) ==
    LET region == b.ex \cup {p}
    IN  MkBoard(region, [p2 \in Sample(region) |-> birthCell(b, p, p2)])

emptyBoard == constantBoard(Dead)

RECURSIVE reduceBirth(_, _)
\* reduce(b, birth)(points) of effect/Array
reduceBirth(b, points) ==
    IF points = <<>> THEN b ELSE reduceBirth(birth(b, Head(points)), Tail(points))

boardFromPoints(points) == reduceBirth(emptyBoard, points)

(***************************************************************************)
(* Directions                                                              *)
(***************************************************************************)
allDirections ==
    <<"north", "northeast", "east", "southeast",
      "south", "southwest", "west", "northwest">>

\* move with the northwest offset a copy of the southwest one
moveBroken(d, p) ==
    addPoint(p,
        CASE d = "north" -> Point(0, -1)
          [] d = "northeast" -> Point(1, -1)
          [] d = "east" -> Point(1, 0)
          [] d = "southeast" -> Point(1, 1)
          [] d = "south" -> Point(0, 1)
          [] d = "southwest" -> Point(-1, 1)
          [] d = "west" -> Point(-1, 0)
          [] d = "northwest" -> Point(-1, 1))

move(d, p) ==
    addPoint(p,
        CASE d = "north" -> Point(0, -1)
          [] d = "northeast" -> Point(1, -1)
          [] d = "east" -> Point(1, 0)
          [] d = "southeast" -> Point(1, 1)
          [] d = "south" -> Point(0, 1)
          [] d = "southwest" -> Point(-1, 1)
          [] d = "west" -> Point(-1, 0)
          [] d = "northwest" -> Point(-1, -1))

(***************************************************************************)
(* Cell differences and rules                                              *)
(***************************************************************************)
Birth == "Birth"

Death == "Death"

NoChange == "NoChange"

updateCell(state, change) ==
    IF isNone(change) THEN state
    ELSE IF change.value = Birth THEN Living ELSE Dead

\* subtractState naming a disappearance Birth and an appearance Death
subtractStateSwapped(a, b) ==
    CASE a = Dead /\ b = Living -> Birth
      [] a = Living /\ b = Dead -> Death
      [] OTHER -> NoChange

subtractState(a, b) ==
    CASE a = Dead /\ b = Living -> Death
      [] a = Living /\ b = Dead -> Birth
      [] OTHER -> NoChange

\* subtractBoard(a, b)(p)
subtractBoard(a, b, p) == subtractState(At(a, p), At(b, p))

includes(xs, n) == \E i \in DOMAIN xs : xs[i] = n

\* A StateChangeRule is kept as its table rule[state][numLivingNeighbors].
\* partsToRule with the survive digits taken for the birth digits and back
partsToRuleSwapped(birthDigits, survive) ==
    [state \in CellState |-> [numLivingNeighbors \in 0..8 |->
        IF state = Living /\ ~includes(birthDigits, numLivingNeighbors)
        THEN Some(Death)
        ELSE IF state = Dead /\ includes(survive, numLivingNeighbors)
        THEN Some(Birth)
        ELSE None]]

partsToRule(birthDigits, survive) ==
    [state \in CellState |-> [numLivingNeighbors \in 0..8 |->
        IF state = Living /\ ~includes(survive, numLivingNeighbors)
        THEN Some(Death)
        ELSE IF state = Dead /\ includes(birthDigits, numLivingNeighbors)
        THEN Some(Birth)
        ELSE None]]

(***************************************************************************)
(* Advance strategies                                                      *)
(***************************************************************************)
\* recursiveAdvance giving the rule the number of neighbours, not of living ones
recursiveAdvanceCellAllNeighbours(rule, board, p) ==
    LET neighbors == [i \in DOMAIN allDirections |->
                         [d |-> allDirections[i], p |-> move(allDirections[i], p)]]
        state == At(board, p)
    IN  updateCell(state, rule[state][Len(neighbors)])

\* the body of the closure recursiveAdvance(rule)(board) returns
recursiveAdvanceCell(rule, board, p) ==
    LET neighbors == [i \in DOMAIN allDirections |->
                         [d |-> allDirections[i], p |-> move(allDirections[i], p)]]
        isLiving(n) == At(board, n.p) = Living
        living == SelectSeq(neighbors, isLiving)
        state == At(board, p)
    IN  updateCell(state, rule[state][Len(living)])

recursiveAdvance(rule, board) ==
    LET region == Grow(board.ex)
    IN  MkBoard(region, [p \in Sample(region) |-> recursiveAdvanceCell(rule, board, p)])

\* the array b of newStoreBoard and the closure reading it
storeArray(width, height, state) ==
    LET xs == range(0, width - 1)
        ys == range(0, height - 1)
    IN  [i \in DOMAIN xs |-> [j \in DOMAIN ys |-> At(state, Point(xs[i], ys[j]))]]

\* the store read as b[p.y]?.[p.x]
storeCellTransposed(b, p) ==
    IF (p.y + 1) \in DOMAIN b /\ (p.x + 1) \in DOMAIN b[p.y + 1]
    THEN b[p.y + 1][p.x + 1]
    ELSE Dead

\* b[p.x]?.[p.y] ?? Dead, on the 0-based array kept 1-based here
storeCell(b, p) ==
    IF (p.x + 1) \in DOMAIN b /\ (p.y + 1) \in DOMAIN b[p.x + 1]
    THEN b[p.x + 1][p.y + 1]
    ELSE Dead

newStoreBoard(width, height, state) ==
    LET b == storeArray(width, height, state)
        region == {Point(x, y) : x \in 0..(Len(b) - 1), y \in 0..(Len(b[1]) - 1)}
    IN  MkBoard(region, [p \in Sample(region) |-> storeCell(b, p)])

advanceWithStorage(width, height, rule, board) ==
    newStoreBoard(width, height, recursiveAdvance(rule, board))

(***************************************************************************)
(* The Store-based advance over a cell buffer                              *)
(***************************************************************************)
\* the % of JavaScript: the remainder takes the sign of the dividend
jsRemainder(a, n) == IF a >= 0 THEN a % n ELSE -((-a) % n)

\* cells[i] of a JavaScript array kept 1-based here: no element, undefined
arrayAt(cells, i) == IF (i + 1) \in DOMAIN cells THEN cells[i + 1] ELSE "undefined"

\* getStore({width, height, cells}): position (0,0) and the peek closure,
\* kept as the buffer it reads
getStore(b) == [pos |-> Point(0, 0), buffer |-> b]

\* s.peek(p)
peek(s, p) ==
    arrayAt(s.buffer.cells,
            p.y * s.buffer.width
                + jsRemainder(p.x, s.buffer.width * s.buffer.height))

\* the number of Living answers among the peeks at the eight neighbours
getNeighbors(s) ==
    LET neighbors == [i \in DOMAIN allDirections |-> peek(s, move(allDirections[i], s.pos))]
        onlyLiving(state) == state = Living
    IN  Len(SelectSeq(neighbors, onlyLiving))

applyRule(rule, s) ==
    LET state == peek(s, s.pos)
    IN  updateCell(state, rule[state][getNeighbors(s)])

\* advanceStore(rule)(s).peek(p): Store.extend gives applyRule the store
\* moved to p
advanceStore(rule, s, p) == applyRule(rule, [s EXCEPT !.pos = p])

\* an exception leaving a function: throw new Error(message)
Thrown(message) == [tag |-> "thrown", error |-> message]

\* backends / pickBackend: the strategy of a known name applied to a board;
\* any other name throws before there is a strategy to apply
pickBackend(name, width, height, rule, board) ==
    CASE name = "function" -> recursiveAdvance(rule, board)
      [] name = "array" -> advanceWithStorage(width, height, rule, board)
      [] OTHER -> Thrown("zoops")

(***************************************************************************)
(* Canonical encoding of a board                                           *)
(***************************************************************************)
RECURSIVE dropLeadingZeros(_)
dropLeadingZeros(bits) ==
    IF bits # <<>> /\ Head(bits) = "0" THEN dropLeadingZeros(Tail(bits)) ELSE bits

\* BigInt("0b" + bits.join("")): the number, kept as its binary digits
BigInt(bits) == dropLeadingZeros(bits)

\* getBoardEq(width, height).equals(a, b)
getBoardEq(width, height, a, b) ==
    LET xs == range(0, width - 1)
        ys == range(0, height - 1)
        coords == [k \in 1..(Len(xs) * Len(ys)) |->
                      Point(xs[((k - 1) \div Len(ys)) + 1], ys[((k - 1) % Len(ys)) + 1])]
        getCells(bd) == [k \in DOMAIN coords |-> At(bd, coords[k])]
    IN  getCells(a) = getCells(b)

\* the bit array of boardToBigNum reading b({x: 0, y}) for every x
boardBitsFirstColumn(width, height, b) ==
    LET xs == range(0, width - 1)
        ys == range(0, height - 1)
    IN  [k \in 1..(Len(xs) * Len(ys)) |->
            LET y == ys[((k - 1) % Len(ys)) + 1]
            IN  IF At(b, Point(0, y)) = Living THEN "1" ELSE "0"]

\* the "1"/"0" array of boardToBigNum: for each x, for each y
boardBits(width, height, b) ==
    LET xs == range(0, width - 1)
        ys == range(0, height - 1)
    IN  [k \in 1..(Len(xs) * Len(ys)) |->
            LET x == xs[((k - 1) \div Len(ys)) + 1]
                y == ys[((k - 1) % Len(ys)) + 1]
            IN  IF At(b, Point(x, y)) = Living THEN "1" ELSE "0"]

\* an encoding that keeps how many cells of the window live, not where
boardToBigNumCounting(width, height, b) ==
    LET isOne(bit) == bit = "1"
    IN  BigInt(SelectSeq(boardBits(width, height, b), isOne))

boardToBigNum(width, height, b) == BigInt(boardBits(width, height, b))

(***************************************************************************)
(* Iterated and Simulation                                                 *)
(***************************************************************************)
\* Iterated.Applicative.of
iteratedOf(a) == [iteration |-> 0, value |-> a]

\* Iterated.map leaving the counter as it was
iteratedMapKeeping(it, mapped) == [iteration |-> it.iteration, value |-> mapped]

\* Iterated.map(f)(it), given mapped = f(it.value)
iteratedMap(it, mapped) == [iteration |-> it.iteration + 1, value |-> mapped]

incomplete(value) == [tag |-> "incomplete", value |-> value]

cycle(value, length) == [tag |-> "cycle", value |-> value, length |-> length]

limited(value) == [tag |-> "limited", value |-> value]

\* Simulation.map(f)(sim), given mapped = f(sim.value): the tag is kept
simulationMap(sim, mapped) == [sim EXCEPT !.value = mapped]

\* isComplete letting only a Cycle through
isCompleteCycleOnly(sim) == sim.tag = "cycle"

isComplete(sim) == sim.tag = "cycle" \/ sim.tag = "limited"

\* the size the history of recent encodings is cut to
HistorySize == 100

\* recent.indexOf(n): the 0-based place of the first entry equal to n, or -1
indexOf(recent, n) ==
    IF \E i \in DOMAIN recent : recent[i] = n
    THEN (CHOOSE i \in DOMAIN recent :
             recent[i] = n /\ \A j \in 1..(i - 1) : recent[j] # n) - 1
    ELSE -1

\* slice that cuts nothing off
sliceWhole(xs, n) == xs

\* xs.slice(0, n)
slice0(xs, n) == SubSeq(xs, 1, IF Len(xs) < n THEN Len(xs) ELSE n)

\* checkMaxTurns comparing with > for >=
checkMaxTurnsStrict(maxTurns, sim) ==
    IF sim.value.iteration > maxTurns THEN limited(sim.value) ELSE sim

checkMaxTurns(maxTurns, sim) ==
    IF sim.value.iteration >= maxTurns THEN limited(sim.value) ELSE sim

\* checkCycling recording each new encoding at the end of the history
checkCyclingAppending(width, height, recent, sim) ==
    LET n == boardToBigNum(width, height, sim.value.value)
        idx == indexOf(recent, n)
    IN  IF idx = -1
        THEN <<slice0(recent \o <<n>>, HistorySize), sim>>
        ELSE <<recent, cycle(sim.value, idx + 1)>>

\* checkCycling giving the place of the match as the length
checkCyclingLengthIdx(width, height, recent, sim) ==
    LET n == boardToBigNum(width, height, sim.value.value)
        idx == indexOf(recent, n)
    IN  IF idx = -1
        THEN <<slice0(<<n>> \o recent, HistorySize), sim>>
        ELSE <<recent, cycle(sim.value, idx)>>

\* the pair S = [recent, sim] of checkCycling
checkCycling(width, height, recent, sim) ==
    LET n == boardToBigNum(width, height, sim.value.value)
        idx == indexOf(recent, n)
    IN  IF idx = -1
        THEN <<slice0(<<n>> \o recent, HistorySize), sim>>
        ELSE <<recent, cycle(sim.value, idx + 1)>>

\* checkAll applying the turn limit to what checkCycling answered
checkAllLimitLast(maxTurns, width, height, recent, sim) ==
    LET s == checkCycling(width, height, recent, sim)
    IN  <<s[1], checkMaxTurns(maxTurns, s[2])>>

checkAll(maxTurns, width, height, recent, sim) ==
    checkCycling(width, height, recent, checkMaxTurns(maxTurns, sim))

\* the console line of reportCompletion, kept as its pieces
reportCompletion(result) ==
    CASE result.tag = "cycle" /\ result.length = 0 ->
            <<"Board settled after ", result.value.iteration, " turns.">>
      [] result.tag = "cycle" /\ result.length # 0 ->
            <<"Board entered cycle of length ", result.length, " after ",
              result.value.iteration, " turns.">>
      [] result.tag = "limited" ->
            <<"Game ended after max (", result.value.iteration,
              ") turns without settling.">>

reportNoGenerations == <<"Completed without simulating anything.">>

(***************************************************************************)
(* Parser combinators.  A Parser is kept as the term that built it and     *)
(* run(p, s) is p.run(s); a ParseResult is an Option of                    *)
(* [result, remaining].  Functions carried as parse results (parseInt,     *)
(* the curried partsToRule) are kept as [fn, args] and applied by apply.   *)
(***************************************************************************)
DigitChars == <<"0", "1", "2", "3", "4", "5", "6", "7", "8", "9">>

digitValue(c) == (CHOOSE i \in DOMAIN DigitChars : DigitChars[i] = c) - 1

RECURSIVE parseIntFrom(_, _)
parseIntFrom(acc, s) ==
    IF s = <<>> THEN acc ELSE parseIntFrom(acc * 10 + digitValue(Head(s)), Tail(s))

\* parseInt on a string of decimal digits
parseInt(s) == parseIntFrom(0, s)

apply(f, a) ==
    CASE f.fn = "parseInt" -> parseInt(a)
      [] f.fn = "partsToRule" /\ f.args = <<>> -> [fn |-> "partsToRule", args |-> <<a>>]
      [] f.fn = "partsToRule" /\ f.args # <<>> -> partsToRule(f.args[1], a)

startsWith(candidate, target) ==
    /\ Len(candidate) >= Len(target)
    /\ SubSeq(candidate, 1, Len(target)) = target

\* candidate.substring(n)
substring(candidate, n) == SubSeq(candidate, n + 1, Len(candidate))

str(target) == [kind |-> "str", target |-> target]

oneOf(options) == [kind |-> "oneOf", options |-> options]

zeroOrMore(p) == [kind |-> "zeroOrMore", p |-> p]

\* sequenceRight(left)(right)
sequenceRight(left, right) == [kind |-> "sequenceRight", left |-> left, right |-> right]

parserMap(p, f) == [kind |-> "map", p |-> p, f |-> f]

parserOf(a) == [kind |-> "of", a |-> a]

parserAp(fab, fa) == [kind |-> "ap", fab |-> fab, fa |-> fa]

RECURSIVE run(_, _)
RECURSIVE runOneOf(_, _)
\* the loop of oneOf: the first option that matches
runOneOf(options, candidate) ==
    IF options = <<>> THEN None
    ELSE LET r == run(Head(options), candidate)
         IN  IF isSome(r) THEN r ELSE runOneOf(Tail(options), candidate)

run(p, s) ==
    CASE p.kind = "str" ->
            IF startsWith(s, p.target)
            THEN Some([result |-> p.target,
                       remaining |-> substring(s, Len(p.target))])
            ELSE None
      [] p.kind = "oneOf" -> runOneOf(p.options, s)
      [] p.kind = "zeroOrMore" ->
            LET first == run(p.p, s)
            IN  IF isSome(first)
                THEN LET rest == run(zeroOrMore(p.p), first.value.remaining)
                     IN  IF isSome(rest)
                         THEN Some([result |-> <<first.value.result>> \o rest.value.result,
                                    remaining |-> rest.value.remaining])
                         ELSE Some([result |-> <<first.value.result>>,
                                    remaining |-> first.value.remaining])
                ELSE Some([result |-> <<>>, remaining |-> s])
      [] p.kind = "sequenceRight" ->
            LET first == run(p.left, s)
            IN  IF isSome(first) THEN run(p.right, first.value.remaining) ELSE first
      [] p.kind = "map" ->
            LET parsed == run(p.p, s)
            IN  IF isSome(parsed)
                THEN Some([result |-> apply(p.f, parsed.value.result),
                           remaining |-> parsed.value.remaining])
                ELSE None
      [] p.kind = "of" -> Some([result |-> p.a, remaining |-> s])
      [] p.kind = "ap" ->
            LET ab == run(p.fab, s)
            IN  IF isSome(ab)
                THEN LET a == run(p.fa, ab.value.remaining)
                     IN  IF isSome(a)
                         THEN Some([result |-> apply(ab.value.result, a.value.result),
                                    remaining |-> a.value.remaining])
                         ELSE None
                ELSE None

Left(e) == [tag |-> "left", left |-> e]

Right(a) == [tag |-> "right", right |-> a]

\* parse answering Right whatever input is left over
parseIgnoringRemaining(p, s) ==
    LET runResult == run(p, s)
    IN  IF isNone(runResult) THEN Left(<<"input not matched">>)
        ELSE Right(runResult.value.result)

\* "some content unmatched: " + JSON.stringify(remaining) is kept as the pair
parse(p, s) ==
    LET runResult == run(p, s)
    IN  IF isNone(runResult) THEN Left(<<"input not matched">>)
        ELSE IF runResult.value.remaining # <<>>
        THEN Left(<<"some content unmatched: ", runResult.value.remaining>>)
        ELSE Right(runResult.value.result)

(***************************************************************************)
(* The rule grammar                                                        *)
(***************************************************************************)
digits ==
    [i \in 1..9 |-> parserMap(str(<<DigitChars[i]>>), [fn |-> "parseInt", args |-> <<>>])]

anyDigit == oneOf(digits)

someDigits == zeroOrMore(anyDigit)

prule == parserOf([fn |-> "partsToRule", args |-> <<>>])

pb == sequenceRight(str(<<"B">>), someDigits)

ps == sequenceRight(str(<<"/", "S">>), someDigits)

ruleParser == parserAp(parserAp(prule, pb), ps)

(***************************************************************************)
(* Initial boards                                                          *)
(***************************************************************************)
\* nextPoint starting the next row one cell late
nextPointLate(width, p) ==
    IF p.x < width THEN Point(p.x + 1, p.y) ELSE Point(0, p.y + 1)

nextPoint(width, p) ==
    IF p.x < width - 1 THEN Point(p.x + 1, p.y) ELSE Point(0, p.y + 1)

RECURSIVE unfoldCells(_, _, _)
\* unfold(seed, ...) of initialBoard: the cells it emits from state {n, p}
unfoldCells(width, n, p) ==
    IF n <= 0 THEN <<>>
    ELSE LET p_ == nextPoint(width, p)
         IN  <<p_>> \o unfoldCells(width, n - 1, p_)

initialBoard(width, height, numStartingAlive) ==
    LET startingAliveCells == unfoldCells(width, numStartingAlive, Point(-1, 0))
    IN  reduceBirth(emptyBoard, startingAliveCells)

patterns ==
    [glider |-> boardFromPoints(
        <<Point(0, 1), Point(1, 2), Point(2, 0), Point(2, 1), Point(2, 2)>>),
     blinker |-> boardFromPoints(<<Point(2, 3), Point(3, 3), Point(4, 3)>>),
     preblock |-> boardFromPoints(<<Point(0, 0), Point(0, 1), Point(1, 0)>>)]

(***************************************************************************)
(* Random boards                                                           *)
(***************************************************************************)
\* ordTuple: tuples compared by their first element only
ordTuple(a, b) == IF a[1] < b[1] THEN -1 ELSE IF a[1] = b[1] THEN 0 ELSE 1

RECURSIVE insertDroppingTies(_, _)
\* insertion that lets a tuple equal to one already there fall out
insertDroppingTies(sorted, a) ==
    IF sorted = <<>> THEN <<a>>
    ELSE IF ordTuple(a, Head(sorted)) < 0 THEN <<a>> \o sorted
    ELSE IF ordTuple(a, Head(sorted)) = 0 THEN sorted
    ELSE <<Head(sorted)>> \o insertDroppingTies(Tail(sorted), a)

RECURSIVE insert(_, _)
\* a placed behind every tuple that is not greater than it
insert(sorted, a) ==
    IF sorted = <<>> THEN <<a>>
    ELSE IF ordTuple(a, Head(sorted)) < 0 THEN <<a>> \o sorted
    ELSE <<Head(sorted)>> \o insert(Tail(sorted), a)

RECURSIVE sortDroppingTies(_)
sortDroppingTies(as) ==
    IF as = <<>> THEN <<>>
    ELSE insertDroppingTies(sortDroppingTies(SubSeq(as, 1, Len(as) - 1)), as[Len(as)])

RECURSIVE sort(_)
\* ReadonlyArray.sort(ordTuple): Array.prototype.sort, which is stable
sort(as) ==
    IF as = <<>> THEN <<>>
    ELSE insert(sort(SubSeq(as, 1, Len(as) - 1)), as[Len(as)])

\* ReadonlyArray.zip(bs)(as): pairs up to the shorter of the two
zip(as, bs) ==
    [i \in 1..(IF Len(as) < Len(bs) THEN Len(as) ELSE Len(bs)) |-> <<as[i], bs[i]>>]

\* shuffle(prng)(xs), given the numbers replicateEffect(xs.length)(prng) drew
shuffle(randoms, xs) ==
    LET pairs == sort(zip(randoms, range(0, Len(xs))))
    IN  [i \in DOMAIN pairs |-> xs[pairs[i][2] + 1]]

\* take(n) of effect/Array
take(n, xs) ==
    SubSeq(xs, 1, IF n < 0 THEN 0 ELSE IF n > Len(xs) THEN Len(xs) ELSE n)

\* cartesian(xs, ys) of effect/Array mapped to points
cartesianPoints(xs, ys) ==
    [k \in 1..(Len(xs) * Len(ys)) |->
        Point(xs[((k - 1) \div Len(ys)) + 1], ys[((k - 1) % Len(ys)) + 1])]

\* randomBoard(width, height, aliveCellCount, prng), given the numbers prng returns
randomBoard(width, height, aliveCellCount, randoms) ==
    LET coords == cartesianPoints(range(0, width - 1), range(0, height - 1))
    IN  reduceBirth(emptyBoard, take(aliveCellCount, shuffle(randoms, coords)))

(***************************************************************************)
(* The board editor                                                        *)
(***************************************************************************)
newEditor == [done |-> FALSE, living |-> <<>>, cursor |-> Point(0, 0)]

moveCommand(x, y) == [tag |-> "move", x |-> x, y |-> y]

toggle == [tag |-> "toggle"]

quit == [tag |-> "quit"]

togglePosition(p, points) ==
    LET keep(other) == ~eqPoint(other, p)
        removed == SelectSeq(points, keep)
    IN  IF Len(removed) # Len(points) THEN removed ELSE Append(points, p)

\* the state applyCommand returns, twice, to Stream.mapAccum
applyCommand(state, command) ==
    CASE command.tag = "move" ->
            [state EXCEPT !.cursor = addPoint(state.cursor, Point(command.x, command.y))]
      [] command.tag = "toggle" ->
            [state EXCEPT !.living = togglePosition(state.cursor, state.living)]
      [] command.tag = "quit" ->
            [state EXCEPT !.done = TRUE]

parseKeypress(press) ==
    CASE press.key.name = "left" -> Some(moveCommand(-1, 0))
      [] press.key.name = "right" -> Some(moveCommand(1, 0))
      [] press.key.name = "up" -> Some(moveCommand(0, -1))
      [] press.key.name = "down" -> Some(moveCommand(0, 1))
      [] press.key.name = "space" -> Some(toggle)
      [] press.key.name = "q" -> Some(quit)
      [] OTHER -> None

boardOfArray(points) == [bg |-> Dead, ex |-> SeqToSet(points)]

(***************************************************************************)
(* finally_                                                                *)
(***************************************************************************)
\* how an effect ends: with a value, with an error of its error type, or with
\* a defect (an exception thrown while it ran)
succeed(a) == [tag |-> "success", value |-> a]

fail(e) == [tag |-> "failure", error |-> e]

die(d) == [tag |-> "die", defect |-> d]

isLeft(result) == result.tag = "left"

\* Effect.either: a failure becomes Left, a value Right; a defect is not caught
either(exit) ==
    IF exit.tag = "failure" THEN succeed(Left(exit.error))
    ELSE IF exit.tag = "success" THEN succeed(Right(exit.value))
    ELSE exit

\* what follows handler in part_008: Effect.andThen(result), the Either run
\* as an effect
andThenResult(result) ==
    IF isLeft(result) THEN fail(result.left) ELSE succeed(result.right)

\* what follows handler in part_009: a callback that throws result.left,
\* which the runtime turns into a defect, or returns the Right
andThenThrowing(result) ==
    IF isLeft(result) THEN die(result.left) ELSE succeed(result.right)

(***************************************************************************)
(* Inputs the specifications draw from                                     *)
(***************************************************************************)
\* rules the rule option can give, and one table that answers with NoChange
Rules ==
    {partsToRule(<<3>>, <<2, 3>>),
     partsToRule(<<>>, <<>>),
     partsToRule(<<0>>, <<>>),
     partsToRule(<<1>>, <<0, 1, 2, 3, 4, 5, 6, 7, 8>>),
     [state \in CellState |-> [n \in 0..8 |->
         IF n = 2 THEN Some(NoChange)
         ELSE IF n = 1 THEN Some(Birth)
         ELSE IF n = 3 THEN Some(Death) ELSE None]]}

conwayRule == partsToRule(<<3>>, <<2, 3>>)

\* boards with cells on both sides of the window's corner at the origin
EdgeCells == {Point(-1, 0), Point(0, 0), Point(1, 0), Point(0, 1)}

EdgeBoards == {[bg |-> Dead, ex |-> S] : S \in SUBSET EdgeCells}

PatternBoards == {patterns.glider, patterns.blinker, patterns.preblock}

Strings(alphabet, maxLen) == UNION {[1..k -> alphabet] : k \in 0..maxLen}

\* "B" bs "/S" ss
RuleString(bs, ss) == <<"B">> \o bs \o <<"/", "S">> \o ss

\* well-formed rule strings: every single digit 0..8 on either side, and up to
\* MaxDigits digits drawn from a few
RuleStrings ==
    LET all == SeqToSet(SubSeq(DigitChars, 1, 9))
        few == {"0", "2", "3", "8"}
    IN  {RuleString(bs, ss) : bs \in Strings(all, 1), ss \in Strings(all, 1)}
        \cup {RuleString(d[1], d[2]) :
                 d \in {e \in Strings(few, MaxDigits) \X Strings(few, MaxDigits) :
                           Len(e[1]) + Len(e[2]) <= MaxDigits}}

NoiseStrings == Strings({"B", "/", "S", "3", "9", "x"}, MaxNoiseLen)

\* a rule string followed by one more character, or cut short by one
DamagedStrings ==
    LET rs == {RuleString(bs, ss) : bs \in {<<>>, <<"3">>}, ss \in {<<>>, <<"2", "3">>}}
    IN  {r \o <<c>> : r \in rs, c \in {"9", "x", "/", "B", "S", " ", "3"}}
        \cup {SubSeq(r, 1, Len(r) - 1) : r \in rs}
        \cup {<<c>> \o r : r \in rs, c \in {"9", " ", "b"}}

Window(width, height) == {Point(x, y) : x \in 0..(width - 1), y \in 0..(height - 1)}

Last(s) == s[Len(s)]

(***************************************************************************)
(* State                                                                   *)
(***************************************************************************)
VARIABLES
    \* the advance strategies iterated side by side
    aRule, aWidth, aHeight,
    fnGens,     \* boards of the "function" backend, generation 0 first
    arGens,     \* boards of the "array" backend, generation 0 first
    arOfFn      \* the array strategy applied to the board fnGens was last advanced from

advVars == <<aRule, aWidth, aHeight, fnGens, arGens, arOfFn>>

VARIABLES
    \* one call of parse(ruleParser, input)
    input,      \* the string given
    parsed      \* None before the call, Some(the Either returned) after it

parseVars == <<input, parsed>>

VARIABLES
    \* one run of lifeImpl
    opts,       \* the options: width, height, maxTurns, backend, rule, board
    pc,         \* where the run is
    gens,       \* the elements Stream.iterate has produced, generation 0 first
    pair,       \* the {c, n} pairing in flight, or None
    stepCalls,  \* the calls of renderer.step: its arguments prev and next
    recent,     \* the history of checkCompletion
    sims,       \* the elements checkCompletion has emitted
    result,     \* what Sink.head took, or None
    report      \* the console line of the outcome, or None

runVars == <<opts, pc, gens, pair, stepCalls, recent, sims, result, report>>

VARIABLES
    \* one application of a board function to boards given by the caller
    bWidth, bHeight,    \* the window
    boardA, boardB,     \* the boards
    bOut                \* what was applied, to what, and what it returned

boardVars == <<bWidth, bHeight, boardA, boardB, bOut>>

VARIABLES
    \* checkCompletion run over a stream that some caller provides
    hPeriod,    \* the period of the boards of the stream
    hWidth, hHeight,
    hFed,       \* the elements of the stream consumed so far
    hRecent,    \* the history of checkCompletion
    hSim        \* the element checkCompletion emitted last, or None

histVars == <<hPeriod, hWidth, hHeight, hFed, hRecent, hSim>>

VARIABLES
    \* one call of randomBoard
    rWidth, rHeight, rCount,
    rDrawn,     \* the numbers the random source has returned so far
    rOut        \* None, or the shuffled coordinates and the board returned

randVars == <<rWidth, rHeight, rCount, rDrawn, rOut>>

VARIABLES
    \* one run of manuallySpecifiedBoard
    eWidth, eHeight,
    ePc,        \* "reading" while the keypress stream is open, then "returned"
    eState,     \* the EditorState of Stream.mapAccum
    eKeys,      \* the keypresses received
    eSteps,     \* the living arrays renderer.step was called with
    eResult     \* None, or the board returned

editVars == <<eWidth, eHeight, ePc, eState, eKeys, eSteps, eResult>>

VARIABLES
    \* one run of finally_(handler)(program)
    fVersion,   \* which of the two definitions of finally_
    fProgram,   \* how program ends
    fHandler,   \* how handler ends
    fPc,
    fLog,       \* the effects that have ended, in order
    fResult     \* None, or how the combined effect ended

finVars == <<fVersion, fProgram, fHandler, fPc, fLog, fResult>>

vars == <<advVars, parseVars, runVars, boardVars, histVars, randVars, editVars, finVars>>

\* values of the variables of a part of the program a specification leaves out
AdvIdle ==
    /\ aRule = None /\ aWidth = 0 /\ aHeight = 0
    /\ fnGens = <<>> /\ arGens = <<>> /\ arOfFn = None

ParseIdle == input = <<>> /\ parsed = None

RunIdle ==
    /\ opts = None /\ pc = "idle" /\ gens = <<>> /\ pair = None /\ stepCalls = <<>>
    /\ recent = <<>> /\ sims = <<>> /\ result = None /\ report = None

BoardIdle ==
    /\ bWidth = 0 /\ bHeight = 0 /\ boardA = None /\ boardB = None
    /\ bOut = [op |-> "none"]

HistIdle ==
    /\ hPeriod = 0 /\ hWidth = 0 /\ hHeight = 0 /\ hFed = 0
    /\ hRecent = <<>> /\ hSim = None

RandIdle ==
    /\ rWidth = 0 /\ rHeight = 0 /\ rCount = 0 /\ rDrawn = <<>> /\ rOut = None

EditIdle ==
    /\ eWidth = 0 /\ eHeight = 0 /\ ePc = "idle" /\ eState = None /\ eKeys = <<>>
    /\ eSteps = <<>> /\ eResult = None

FinIdle ==
    /\ fVersion = 0 /\ fProgram = None /\ fHandler = None /\ fPc = "idle"
    /\ fLog = <<>> /\ fResult = None

\* the parts of the program that the specifications after the first five leave out
OthersIdle == RandIdle /\ EditIdle /\ FinIdle

(***************************************************************************)
(* The advance strategies as a state machine                               *)
(***************************************************************************)
AdvInit ==
    /\ aRule \in Rules
    /\ aWidth \in 1..MaxStoreSide
    /\ aHeight \in 1..MaxStoreSide
    /\ \E b \in PatternBoards \cup EdgeBoards \cup {constantBoard(Living)}
                 \cup {initialBoard(aWidth, aHeight, n) : n \in 0..MaxCells} :
          /\ fnGens = <<b>>
          /\ arGens = <<b>>
          /\ arOfFn = b
    /\ ParseIdle
    /\ RunIdle
    /\ BoardIdle
    /\ HistIdle
    /\ OthersIdle

AdvanceBoth ==
    /\ Len(fnGens) <= MaxGen
    /\ fnGens' = Append(fnGens, recursiveAdvance(aRule, Last(fnGens)))
    /\ arGens' = Append(arGens, advanceWithStorage(aWidth, aHeight, aRule, Last(arGens)))
    /\ arOfFn' = advanceWithStorage(aWidth, aHeight, aRule, Last(fnGens))
    /\ UNCHANGED <<aRule, aWidth, aHeight, parseVars, runVars, boardVars, histVars,
                   randVars, editVars, finVars>>

AdvNext == AdvanceBoth

SpecAdvance == AdvInit /\ [][AdvNext]_vars

(***************************************************************************)
(* Claims about the advance strategies (checked under SpecAdvance)         *)
(***************************************************************************)
\* the eight points p+(dx,dy), dx,dy in {-1,0,1}, (dx,dy) # (0,0)
EightAround(p) ==
    {Point(p.x + dx, p.y + dy) : dx \in {-1, 0, 1}, dy \in {-1, 0, 1}} \ {p}

LivingAround(board, p) == Cardinality({q \in EightAround(p) : At(board, q) = Living})

\* points at which two boards built from `board` are compared: around its
\* cells, the window, and a point far from both
Probes(board, width, height) ==
    LET near == Grow(Grow(board.ex)) \cup Window(width + 1, height + 1)
    IN  near \cup {Far(near)}

\* C1: each cell of recursiveAdvance(rule)(board) is updateCell(board(p),
\* rule(board(p), n)) with n the number of Living cells among exactly the
\* eight points around p (p itself not counted), and 0 <= n <= 8.
C1_RecursiveAdvanceCountsEightNeighbours ==
    Len(fnGens) >= 2 =>
        LET board == fnGens[Len(fnGens) - 1]
            next == Last(fnGens)
        IN  \A p \in Probes(board, aWidth, aHeight) :
                LET n == LivingAround(board, p)
                IN  /\ n \in 0..8
                    /\ Cardinality(EightAround(p)) = 8
                    /\ p \notin EightAround(p)
                    /\ At(next, p) = updateCell(At(board, p), aRule[At(board, p)][n])

\* C1 witness: a board has been advanced in which some cell has living
\* neighbours in every one of the four diagonal and four straight directions
\* taken together (a count of at least 3) and changes state
C1_Witness ==
    /\ Len(fnGens) >= 2
    /\ \E p \in Grow(fnGens[Len(fnGens) - 1].ex) :
          /\ LivingAround(fnGens[Len(fnGens) - 1], p) >= 3
          /\ At(fnGens[Len(fnGens) - 1], Point(p.x - 1, p.y - 1)) = Living
          /\ At(Last(fnGens), p) # At(fnGens[Len(fnGens) - 1], p)

\* C2: one application of recursiveAdvance(rule) and one of
\* advanceWithStorage(width,height)(rule) to the same board agree at every
\* point of the width x height window.
C2_StrategiesAgreeAfterOneStep ==
    Len(fnGens) >= 2 =>
        \A p \in Window(aWidth, aHeight) : At(Last(fnGens), p) = At(arOfFn, p)

\* C2 witness: both strategies were applied to a board with living cells
\* outside the window, and the results differ outside the window
C2_Witness ==
    /\ Len(fnGens) >= 2
    /\ \E q \in fnGens[Len(fnGens) - 1].ex : q \notin Window(aWidth, aHeight)
    /\ \E p \in Window(aWidth, aHeight) : At(arOfFn, p) = Living
    /\ Last(fnGens) # arOfFn

\* C3 (as claimed): at every generation 0..k the boards of the two backends,
\* iterated from the same initial board, agree at every point of the window.
C3_BackendsAgreeAtEveryGeneration ==
    \A k \in DOMAIN fnGens :
        \A p \in Window(aWidth, aHeight) : At(fnGens[k], p) = At(arGens[k], p)

\* C15 (as claimed): a board of the array strategy, asked about a point
\* outside the window (negative coordinates included), answers with the
\* cell of its buffer the point wraps onto by modulo addressing.
C15_StoreWrapsOutsideTheWindow ==
    Len(arGens) >= 2 =>
        \A q \in Probes(Last(arGens), aWidth, aHeight) \ Window(aWidth, aHeight) :
            At(Last(arGens), q) = At(Last(arGens), Point(q.x % aWidth, q.y % aHeight))

translate(S, v) == {addPoint(p, v) : p \in S}

\* C9: four applications of recursiveAdvance under B3/S23 take the glider to
\* the same shape translated by (1,1), every other point Dead.
C9_GliderMovesDiagonally ==
    (aRule = conwayRule /\ fnGens[1] = patterns.glider /\ Len(fnGens) >= 5) =>
        /\ fnGens[5].bg = Dead
        /\ fnGens[5].ex = translate(
              {Point(0, 1), Point(1, 2), Point(2, 0), Point(2, 1), Point(2, 2)},
              Point(1, 1))

\* C9 witness: the glider has been advanced four times under B3/S23
C9_Witness ==
    /\ aRule = conwayRule
    /\ fnGens[1] = patterns.glider
    /\ Len(fnGens) = 5
    /\ fnGens[5] # fnGens[1]

(***************************************************************************)
(* The rule parser as a state machine                                      *)
(***************************************************************************)
ParseInit ==
    /\ input \in RuleStrings \cup NoiseStrings \cup DamagedStrings
    /\ parsed = None
    /\ AdvIdle
    /\ RunIdle
    /\ BoardIdle
    /\ HistIdle
    /\ OthersIdle

RunParse ==
    /\ parsed = None
    /\ parsed' = Some(parse(ruleParser, input))
    /\ UNCHANGED <<input, advVars, runVars, boardVars, histVars,
                   randVars, editVars, finVars>>

ParseNext == RunParse

SpecParse == ParseInit /\ [][ParseNext]_vars

(***************************************************************************)
(* Claims about the rule parser (checked under SpecParse)                  *)
(***************************************************************************)
RuleDigitChars == {"0", "1", "2", "3", "4", "5", "6", "7", "8"}

\* the place of the "/" in s, or 0
SlashAt(s) ==
    IF \E i \in DOMAIN s : s[i] = "/"
    THEN CHOOSE i \in DOMAIN s : s[i] = "/" /\ \A j \in 1..(i - 1) : s[j] # "/"
    ELSE 0

\* s is "B" b1..bm "/S" s1..sn with every digit in 0..8
IsRuleString(s) ==
    LET i == SlashAt(s)
    IN  /\ i >= 2
        /\ s[1] = "B"
        /\ Len(s) >= i + 1
        /\ s[i + 1] = "S"
        /\ \A j \in 2..(i - 1) : s[j] \in RuleDigitChars
        /\ \A j \in (i + 2)..Len(s) : s[j] \in RuleDigitChars

CharDigit(c) ==
    CASE c = "0" -> 0 [] c = "1" -> 1 [] c = "2" -> 2 [] c = "3" -> 3 [] c = "4" -> 4
      [] c = "5" -> 5 [] c = "6" -> 6 [] c = "7" -> 7 [] c = "8" -> 8

BirthSetOf(s) == {CharDigit(s[j]) : j \in 2..(SlashAt(s) - 1)}

SurviveSetOf(s) == {CharDigit(s[j]) : j \in (SlashAt(s) + 2)..Len(s)}

\* C10: parse(ruleParser, s) succeeds on every string "B" b1..bm "/S" s1..sn
\* with digits in 0..8, and the rule it gives answers Birth exactly for a Dead
\* cell with a count among b1..bm, Death exactly for a Living cell with a
\* count not among s1..sn, and no change otherwise.
C10_ParsedRuleMatchesItsString ==
    (isSome(parsed) /\ IsRuleString(input)) =>
        /\ parsed.value.tag = "right"
        /\ \A k \in 0..8 :
              LET rule == parsed.value.right
              IN  /\ rule[Dead][k] = Some(Birth) <=> k \in BirthSetOf(input)
                  /\ rule[Living][k] = Some(Death) <=> k \notin SurviveSetOf(input)
                  /\ k \notin BirthSetOf(input) => rule[Dead][k] = None
                  /\ k \in SurviveSetOf(input) => rule[Living][k] = None
                  /\ rule[Dead][k] \in {Some(Birth), None}
                  /\ rule[Living][k] \in {Some(Death), None}

\* C10 witness: "B3/S23" has been parsed, and its rule gives Birth for
\* (Dead,3), no change for (Living,2) and Death for (Living,4)
C10_Witness ==
    /\ input = <<"B", "3", "/", "S", "2", "3">>
    /\ isSome(parsed)
    /\ parsed.value.tag = "right"
    /\ parsed.value.right[Dead][3] = Some(Birth)
    /\ parsed.value.right[Living][2] = None
    /\ parsed.value.right[Living][4] = Some(Death)

\* s has a character that is no part of the grammar (not B, /, S or a digit)
HasUnrecognisedChar(s) ==
    \E i \in DOMAIN s : s[i] \notin RuleDigitChars \cup {"B", "/", "S", "9"}

HasDigitNine(s) == \E i \in DOMAIN s : s[i] = "9"

\* s is a rule string followed by at least one more character that does not
\* continue it
HasTrailingInput(s) ==
    \E k \in 1..(Len(s) - 1) :
        /\ IsRuleString(SubSeq(s, 1, k))
        /\ s[k + 1] \notin RuleDigitChars

\* C11: parse(ruleParser, s) always returns an Either: a Left with a message
\* for every input with an unrecognised character, a digit 9 or input left
\* over after the rule (indeed for every input that is not a rule string),
\* and a Right only when the whole input was consumed as a rule.
C11_ParseFailsAsLeft ==
    isSome(parsed) =>
        /\ parsed.value.tag \in {"left", "right"}
        /\ (HasUnrecognisedChar(input) \/ HasDigitNine(input)
               \/ HasTrailingInput(input) \/ ~IsRuleString(input)) =>
              /\ parsed.value.tag = "left"
              /\ parsed.value.left[1] \in {"input not matched", "some content unmatched: "}
        /\ parsed.value.tag = "right" =>
              /\ IsRuleString(input)
              /\ run(ruleParser, input).value.remaining = <<>>

\* C11 witness: "B3/S239" was parsed: the rule matched, the 9 was left over
\* and the answer is the Left that names it
C11_Witness ==
    /\ input = <<"B", "3", "/", "S", "2", "3", "9">>
    /\ HasDigitNine(input)
    /\ HasTrailingInput(input)
    /\ parsed = Some(Left(<<"some content unmatched: ", <<"9">>>>))

(***************************************************************************)
(* The simulation driver (lifeImpl) as a state machine                     *)
(***************************************************************************)
\* values of the --rule option
RuleTexts ==
    {<<"B", "3", "/", "S", "2", "3">>,
     <<"B", "/", "S">>,
     <<"B", "0", "/", "S">>}

\* sides of the window
Sides == {2, MaxSide}

\* the board options: a named pattern, or a number of starting cells
BoardOptions ==
    {[kind |-> "pattern", name |-> n] : n \in {"glider", "blinker", "preblock"}}
        \cup {[kind |-> "cellCount", count |-> c] : c \in 0..MaxCells}

\* the rule of the --rule option: parse(ruleParser, s), which withRight unwraps
ruleOf(text) == parse(ruleParser, text).right

\* makeBoard of the BoardSetup the board options give
makeBoard(o) ==
    IF o.board.kind = "pattern" THEN patterns[o.board.name]
    ELSE initialBoard(o.width, o.height, o.board.count)

\* boardInfo.advance: pickBackend(backend, width, height)(rule)
advance(o, board) == pickBackend(o.backend, o.width, o.height, ruleOf(o.rule), board)

RunInit ==
    /\ opts \in [width : Sides, height : Sides, maxTurns : 0..MaxTurnsBound,
                 backend : {"function", "array"}, rule : RuleTexts,
                 board : BoardOptions]
    /\ pc = "start"
    /\ gens = <<>>
    /\ pair = None
    /\ stepCalls = <<>>
    /\ recent = <<>>
    /\ sims = <<>>
    /\ result = None
    /\ report = None
    /\ AdvIdle
    /\ ParseIdle
    /\ BoardIdle
    /\ HistIdle
    /\ OthersIdle

\* a start that enters the initial board in the history
StartRunRecordingInitial ==
    /\ pc = "start"
    /\ gens' = <<incomplete(iteratedOf(makeBoard(opts)))>>
    /\ recent' = <<boardToBigNum(opts.width, opts.height, makeBoard(opts))>>
    /\ pc' = "pull"
    /\ UNCHANGED <<opts, pair, stepCalls, sims, result, report, advVars,
                   parseVars, boardVars, histVars,
                   randVars, editVars, finVars>>

\* makeBoard and renderer.setup; Stream.iterate emits generation 0, which
\* zipWithPrevious pairs with no previous element and flatMap drops
StartRun ==
    /\ pc = "start"
    /\ gens' = <<incomplete(iteratedOf(makeBoard(opts)))>>
    /\ pc' = "pull"
    /\ UNCHANGED <<opts, pair, stepCalls, recent, sims, result, report, advVars,
                   parseVars, boardVars, histVars,
                   randVars, editVars, finVars>>

\* Stream.iterate emits the next generation; zipWithPrevious pairs it with
\* the one before
IterateNext ==
    /\ pc = "pull"
    /\ LET c == Last(gens)
           n == simulationMap(c, iteratedMap(c.value, advance(opts, c.value.value)))
       IN  /\ gens' = Append(gens, n)
           /\ pair' = Some([c |-> c, n |-> n])
    /\ pc' = "render"
    /\ UNCHANGED <<opts, stepCalls, recent, sims, result, report, advVars, parseVars,
                   boardVars, histVars,
                   randVars, editVars, finVars>>

\* Stream.tap giving renderer.step the newest state for both arguments
RenderNewestTwice ==
    /\ pc = "render"
    /\ stepCalls' = Append(stepCalls,
          [prev |-> pair.value.n.value, next |-> pair.value.n.value])
    /\ pc' = "check"
    /\ UNCHANGED <<opts, gens, pair, recent, sims, result, report, advVars, parseVars,
                   boardVars, histVars,
                   randVars, editVars, finVars>>

\* Stream.tap: renderer.step(c.value, n.value)
Render ==
    /\ pc = "render"
    /\ stepCalls' = Append(stepCalls,
          [prev |-> pair.value.c.value, next |-> pair.value.n.value])
    /\ pc' = "check"
    /\ UNCHANGED <<opts, gens, pair, recent, sims, result, report, advVars, parseVars,
                   boardVars, histVars,
                   randVars, editVars, finVars>>

\* Stream.map(n), checkCompletion, Stream.filter(isComplete) and Sink.head
Check ==
    /\ pc = "check"
    /\ LET s == checkAll(opts.maxTurns, opts.width, opts.height, recent, pair.value.n)
       IN  /\ recent' = s[1]
           /\ sims' = Append(sims, s[2])
           /\ IF isComplete(s[2])
              THEN result' = Some(s[2]) /\ pc' = "report"
              ELSE result' = result /\ pc' = "pull"
    /\ pair' = None
    /\ UNCHANGED <<opts, gens, stepCalls, report, advVars, parseVars, boardVars,
                   histVars,
                   randVars, editVars, finVars>>

\* the outcome of Sink.head reported
Report ==
    /\ pc = "report"
    /\ report' = Some(IF isSome(result) THEN reportCompletion(result.value)
                      ELSE reportNoGenerations)
    /\ pc' = "cleanup"
    /\ UNCHANGED <<opts, gens, pair, stepCalls, recent, sims, result, advVars,
                   parseVars, boardVars, histVars,
                   randVars, editVars, finVars>>

\* finally_(renderer.cleanup)
Cleanup ==
    /\ pc = "cleanup"
    /\ pc' = "done"
    /\ UNCHANGED <<opts, gens, pair, stepCalls, recent, sims, result, report, advVars,
                   parseVars, boardVars, histVars,
                   randVars, editVars, finVars>>

RunNext ==
    \/ StartRun
    \/ IterateNext
    \/ Render
    \/ Check
    \/ Report
    \/ Cleanup

(***************************************************************************)
(* Claims about the driver (checked under Spec)                            *)
(***************************************************************************)
\* the board of generation g, and its encoding in the window of the run
BoardOfGen(g) == gens[g + 1].value.value

EncOfGen(g) == boardToBigNum(opts.width, opts.height, BoardOfGen(g))

\* C4: when the generation g that checkCompletion processes equals the
\* history entry at position i (0 = most recent), the Cycle it emits has
\* length i+1, and that is g - g' for the most recent earlier recorded
\* generation g' with the same encoding.
C4_CycleLengthIsDistanceToLastEqualGeneration ==
    \A k \in DOMAIN sims :
        sims[k].tag = "cycle" =>
            LET g == sims[k].value.iteration
                i == sims[k].length - 1
            IN  /\ i >= 0
                /\ i + 1 <= Len(recent)
                /\ recent[i + 1] = EncOfGen(g)
                /\ g - (i + 1) >= 1
                /\ EncOfGen(g - (i + 1)) = EncOfGen(g)
                /\ \A h \in (g - i)..(g - 1) : EncOfGen(h) # EncOfGen(g)

\* C4 witness: a Cycle has been emitted for a match that was not the most
\* recent entry of the history
C4_Witness ==
    /\ pc = "report"
    /\ result.value.tag = "cycle"
    /\ result.value.length >= 2
    /\ indexOf(recent, EncOfGen(result.value.value.iteration)) >= 1

IsBlock(b) == b = [bg |-> Dead, ex |-> {Point(0, 0), Point(1, 0), Point(0, 1), Point(1, 1)}]

\* C5 (as claimed): a run started from the 2x2 block under B3/S23, a still
\* life, ends with a Cycle of length 0 and the "Board settled after N turns."
\* line.
C5_StillLifeReportedAsSettled ==
    (/\ pc = "done"
     /\ opts.rule = <<"B", "3", "/", "S", "2", "3">>
     /\ opts.maxTurns >= 2
     /\ IsBlock(BoardOfGen(0))
     /\ BoardOfGen(1) = BoardOfGen(0)) =>
        /\ result.value.tag = "cycle"
        /\ result.value.length = 0
        /\ report = Some(<<"Board settled after ", result.value.value.iteration, " turns.">>)

\* no generation 1..g has the encoding of an earlier recorded generation
NoMatchUpTo(g) == \A a \in 1..g : \A b \in (a + 1)..g : EncOfGen(a) # EncOfGen(b)

\* C6: with maxTurns >= 1 and no generation 1..maxTurns matching the history,
\* every generation before maxTurns is classified Incomplete and the first
\* completion is Limited with iteration = maxTurns.
C6_LimitedExactlyAtMaxTurns ==
    opts.maxTurns >= 1 =>
        \A g \in DOMAIN sims :
            NoMatchUpTo(g) =>
                /\ g <= opts.maxTurns
                /\ g < opts.maxTurns => sims[g] = incomplete(gens[g + 1].value)
                /\ g = opts.maxTurns =>
                      /\ sims[g] = limited(gens[g + 1].value)
                      /\ sims[g].value.iteration = opts.maxTurns
                      /\ result = Some(sims[g])
                      /\ \A h \in 1..(g - 1) : ~isComplete(sims[h])

\* C6 witness: a run with maxTurns >= 3 in which no generation repeated has
\* ended Limited
C6_Witness ==
    /\ pc = "done"
    /\ opts.maxTurns >= 3
    /\ NoMatchUpTo(opts.maxTurns)
    /\ result.value.tag = "limited"
    /\ Len(sims) = opts.maxTurns

\* the generations before k, all of them recorded, that have k's encoding
MatchesBefore(k) == {h \in 1..(k - 1) : EncOfGen(h) = EncOfGen(k)}

\* C14: a generation at or past the turn limit whose encoding matches an entry
\* of the history is classified Cycle, with the length of the match; Limited
\* is emitted only for a generation whose encoding matches none.
C14_CycleTakesPrecedenceOverLimited ==
    \A k \in DOMAIN sims :
        /\ sims[k].value.iteration = k
        /\ (k >= opts.maxTurns /\ MatchesBefore(k) # {}) =>
              /\ sims[k].tag = "cycle"
              /\ sims[k].length = k - Max(MatchesBefore(k))
        /\ (k >= opts.maxTurns /\ MatchesBefore(k) = {}) => sims[k].tag = "limited"
        /\ sims[k].tag = "limited" => (k >= opts.maxTurns /\ MatchesBefore(k) = {})

\* C14 witness: a run has ended with Cycle at the very generation of its turn
\* limit, two or more generations in
C14_Witness ==
    /\ pc = "done"
    /\ opts.maxTurns >= 2
    /\ result.value.tag = "cycle"
    /\ result.value.value.iteration = opts.maxTurns
    /\ MatchesBefore(opts.maxTurns) # {}

\* C17: the initial board carries iteration 0 and every application of the
\* advance strategy gives a state whose iteration is one more than that of
\* the state it was applied to: the k-th state carries iteration k and the
\* board of k applications of advance to the initial board.
C17_IterationCountsApplicationsOfAdvance ==
    \A k \in DOMAIN gens :
        /\ gens[k].value.iteration = k - 1
        /\ gens[k].tag = "incomplete"
        /\ k = 1 => gens[k].value.value = makeBoard(opts)
        /\ k > 1 =>
              /\ gens[k].value.iteration = gens[k - 1].value.iteration + 1
              /\ gens[k].value.value = advance(opts, gens[k - 1].value.value)

\* C17 witness: three generations after the initial board have been produced,
\* each a board different from the one before
C17_Witness ==
    /\ Len(gens) = 4
    /\ Last(gens).value.iteration = 3
    /\ \A k \in 2..4 : gens[k].value.value # gens[k - 1].value.value

\* C19: renderer.step is called once for each generation g = 1..T, in
\* increasing order, with prev = generation g-1 and next = generation g, and
\* a generation is rendered before checkCompletion sees it; a run that ended
\* at generation T has made exactly T calls.
C19_EachGenerationRenderedOnceBeforeItsCheck ==
    /\ \A g \in DOMAIN stepCalls :
          /\ g + 1 \in DOMAIN gens
          /\ stepCalls[g].prev = gens[g].value
          /\ stepCalls[g].next = gens[g + 1].value
          /\ stepCalls[g].prev.iteration = g - 1
          /\ stepCalls[g].next.iteration = g
    /\ \A g \in DOMAIN sims :
          /\ g \in DOMAIN stepCalls
          /\ sims[g].value = stepCalls[g].next
    /\ Len(stepCalls) \in {Len(sims), Len(sims) + 1}
    /\ pc = "check" => Len(stepCalls) = Len(sims) + 1
    /\ pc \in {"pull", "report", "cleanup", "done"} => Len(stepCalls) = Len(gens) - 1
    /\ isSome(result) => Len(stepCalls) = result.value.value.iteration

\* C19 witness: a run has ended at generation 3 or later, with as many calls
\* of renderer.step as generations
C19_Witness ==
    /\ pc = "done"
    /\ result.value.value.iteration >= 3
    /\ Len(stepCalls) = result.value.value.iteration
    /\ stepCalls[3].prev.value # stepCalls[3].next.value

\* C7 (as claimed): a run with maxTurns = 0 produces no generation after
\* generation 0, never calls renderer.step and ends with the line of
\* reportNoGenerations.
C7_ZeroTurnsSimulatesNothing ==
    (pc = "done" /\ opts.maxTurns = 0) =>
        /\ Len(gens) = 1
        /\ stepCalls = <<>>
        /\ report = Some(reportNoGenerations)

LivingOf(b) == IF b.bg = Dead THEN b.ex ELSE {"all but", b.ex}

BlinkerRun ==
    /\ opts.board = [kind |-> "pattern", name |-> "blinker"]
    /\ opts.rule = <<"B", "3", "/", "S", "2", "3">>
    /\ opts.width >= 5
    /\ opts.height >= 5
    /\ opts.maxTurns >= 3

\* C8: from the horizontal blinker under B3/S23, in a window that holds both
\* orientations and with enough turns, generation 1 is the vertical
\* orientation, generation 2 the horizontal one again, and the completion is
\* Cycle with length 2.
C8_BlinkerCycleOfLengthTwo ==
    BlinkerRun =>
        /\ Len(gens) >= 1 =>
              LivingOf(BoardOfGen(0)) = {Point(2, 3), Point(3, 3), Point(4, 3)}
        /\ Len(gens) >= 2 =>
              LivingOf(BoardOfGen(1)) = {Point(3, 2), Point(3, 3), Point(3, 4)}
        /\ Len(gens) >= 3 =>
              LivingOf(BoardOfGen(2)) = {Point(2, 3), Point(3, 3), Point(4, 3)}
        /\ isSome(result) =>
              /\ result.value.tag = "cycle"
              /\ result.value.length = 2

\* C8 witness: a blinker run has ended and reported
C8_Witness ==
    /\ BlinkerRun
    /\ pc = "done"
    /\ Len(gens) >= 3
    /\ result.value.tag = "cycle"
    /\ report = Some(reportCompletion(result.value))

(***************************************************************************)
(* The board functions applied once each                                   *)
(***************************************************************************)
\* the window's points and one point outside it
BoardPoints(width, height) == Window(width, height) \cup {Point(-1, 0)}

\* boards a caller can build with boardFromPoints, and the all-Living board
SmallBoards(width, height) ==
    {[bg |-> Dead, ex |-> S] : S \in SUBSET BoardPoints(width, height)}
        \cup {constantBoard(Living)}

BoardInit ==
    /\ bWidth \in 1..MaxArea
    /\ bHeight \in 1..MaxArea
    /\ bWidth * bHeight <= MaxArea
    /\ boardA \in SmallBoards(bWidth, bHeight)
    /\ boardB \in SmallBoards(bWidth, bHeight)
    /\ bOut = [op |-> "none"]
    /\ AdvIdle
    /\ ParseIdle
    /\ RunIdle
    /\ HistIdle
    /\ OthersIdle

\* birth(boardA, p), and birth applied to its result again
ApplyBirth ==
    /\ bOut.op = "none"
    /\ \E p \in BoardPoints(bWidth, bHeight) \cup {Point(bWidth, bHeight)} :
          bOut' = [op |-> "birth", p |-> p, once |-> birth(boardA, p),
                   twice |-> birth(birth(boardA, p), p)]
    /\ UNCHANGED <<bWidth, bHeight, boardA, boardB, advVars, parseVars, runVars, histVars,
                   randVars, editVars, finVars>>

\* boardToBigNum of both boards, and getBoardEq of the pair
ApplyEncode ==
    /\ bOut.op = "none"
    /\ bOut' = [op |-> "encode",
                a |-> boardToBigNum(bWidth, bHeight, boardA),
                b |-> boardToBigNum(bWidth, bHeight, boardB),
                equals |-> getBoardEq(bWidth, bHeight, boardA, boardB)]
    /\ UNCHANGED <<bWidth, bHeight, boardA, boardB, advVars, parseVars, runVars, histVars,
                   randVars, editVars, finVars>>

\* initialBoard(bWidth, bHeight, n)
ApplyInitialBoard ==
    /\ bOut.op = "none"
    /\ \E n \in 0..MaxCells :
          bOut' = [op |-> "initialBoard", n |-> n,
                   board |-> initialBoard(bWidth, bHeight, n)]
    /\ UNCHANGED <<bWidth, bHeight, boardA, boardB, advVars, parseVars, runVars, histVars,
                   randVars, editVars, finVars>>

BoardNext ==
    \/ ApplyBirth
    \/ ApplyEncode
    \/ ApplyInitialBoard

SpecBoard == BoardInit /\ [][BoardNext]_vars

(***************************************************************************)
(* Claims about the board functions (checked under SpecBoard)              *)
(***************************************************************************)
\* points at which the boards of a window are asked: the window, every point
\* next to it, and one far away
BoardProbes(width, height) ==
    LET near == Grow(BoardPoints(width, height))
    IN  near \cup {Far(near)}

\* C12: birth(b,p)(q) is Living at q = p and b(q) elsewhere; birth applied
\* again at p gives a board equal to birth(b,p) at every point; and b itself
\* is left as it was.
C12_BirthSetsOnePointAndIsIdempotent ==
    [][bOut'.op = "birth" =>
          /\ boardA' = boardA
          /\ \A q \in BoardProbes(bWidth, bHeight) :
                /\ At(bOut'.once, q) = IF q = bOut'.p THEN Living ELSE At(boardA, q)
                /\ At(bOut'.twice, q) = At(bOut'.once, q)
                /\ At(boardA', q) = At(boardA, q)
          /\ bOut'.twice = bOut'.once]_vars

\* C12 witness: birth was applied at a Dead point of a board that has Living
\* cells elsewhere, and they are Living in the result too
C12_Witness ==
    /\ bOut.op = "birth"
    /\ At(boardA, bOut.p) = Dead
    /\ At(bOut.once, bOut.p) = Living
    /\ \E q \in boardA.ex : q # bOut.p /\ At(bOut.once, q) = Living
    /\ bOut.twice = bOut.once

SameInWindow(width, height, a, b) ==
    \A x \in 0..(width - 1) : \A y \in 0..(height - 1) :
        At(a, Point(x, y)) = At(b, Point(x, y))

\* C16: boardToBigNum gives two boards the same number exactly when they have
\* the same state at every point of the window, which is exactly when
\* getBoardEq calls them equal; the number is non-negative and below
\* 2^(width*height) (binary digits without a leading zero, at most
\* width*height of them).
C16_EncodingIsExactOnTheWindow ==
    bOut.op = "encode" =>
        /\ (bOut.a = bOut.b) <=> SameInWindow(bWidth, bHeight, boardA, boardB)
        /\ bOut.equals <=> SameInWindow(bWidth, bHeight, boardA, boardB)
        /\ \A e \in {bOut.a, bOut.b} :
              /\ Len(e) <= bWidth * bHeight
              /\ \A i \in DOMAIN e : e[i] \in {"0", "1"}
              /\ e # <<>> => e[1] = "1"

\* C16 witness: two boards that differ only outside a window of more than one
\* column and more than one row, with Living cells in it, were encoded alike
C16_Witness ==
    /\ bOut.op = "encode"
    /\ bWidth >= 2 /\ bHeight >= 2
    /\ boardA # boardB
    /\ bOut.a = bOut.b
    /\ Len(bOut.a) >= 2
    /\ bOut.equals

\* C20: initialBoard(width,height,n) has exactly the n Living cells
\* (i mod width, i div width), 0 <= i < n, and is Dead everywhere else.
C20_InitialBoardFillsRowByRow ==
    bOut.op = "initialBoard" =>
        /\ bOut.board.bg = Dead
        /\ bOut.board.ex = {Point(i % bWidth, i \div bWidth) : i \in 0..(bOut.n - 1)}
        /\ Cardinality(bOut.board.ex) = bOut.n
        /\ \A q \in BoardProbes(bWidth, bHeight) :
              At(bOut.board, q) = Living <=>
                  \E i \in 0..(bOut.n - 1) : q = Point(i % bWidth, i \div bWidth)

\* C20 witness: initialBoard was asked for more cells than a row of two or
\* more holds, so that a second row was begun
C20_Witness ==
    /\ bOut.op = "initialBoard"
    /\ bWidth >= 2
    /\ bOut.n > bWidth
    /\ At(bOut.board, Point(0, 1)) = Living
    /\ At(bOut.board, Point(bWidth - 1, 0)) = Living

(***************************************************************************)
(* checkCompletion over a stream of boards of a given period               *)
(***************************************************************************)
RECURSIVE BitPoints(_, _, _)
\* the cells (j mod width, j div width), from j on, for the binary digits 1 of k
BitPoints(width, k, j) ==
    IF k = 0 THEN <<>>
    ELSE (IF k % 2 = 1 THEN <<Point(j % width, j \div width)>> ELSE <<>>)
             \o BitPoints(width, k \div 2, j + 1)

\* the board of element g of the stream: the window shows g mod period in binary
StreamBoard(g) == boardFromPoints(BitPoints(hWidth, g % hPeriod, 0))

\* periods up to the number of boards the window tells apart
HistPeriods == {1, 2, HistorySize - 1, HistorySize, HistorySize + 1, 2 ^ HistBits - 1}

HistInit ==
    /\ hPeriod \in HistPeriods
    /\ \E wh \in {<<HistBits, 1>>, <<1, HistBits>>} : hWidth = wh[1] /\ hHeight = wh[2]
    /\ hFed = 0
    /\ hRecent = <<>>
    /\ hSim = None
    /\ AdvIdle
    /\ ParseIdle
    /\ RunIdle
    /\ BoardIdle
    /\ OthersIdle

\* one step of Stream.mapAccum([], checkAll) on the next element of the
\* stream, pulled as long as Stream.filter(isComplete) has let nothing through
Feed ==
    /\ hFed < MaxFeed
    /\ isSome(hSim) => ~isComplete(hSim.value)
    /\ LET g == hFed + 1
           sim == incomplete([iteration |-> g, value |-> StreamBoard(g)])
           s == checkAll(MaxFeed, hWidth, hHeight, hRecent, sim)
       IN  /\ hRecent' = s[1]
           /\ hSim' = Some(s[2])
    /\ hFed' = hFed + 1
    /\ UNCHANGED <<hPeriod, hWidth, hHeight, advVars, parseVars, runVars, boardVars,
                   randVars, editVars, finVars>>

HistNext == Feed

SpecHistory == HistInit /\ [][HistNext]_vars

(***************************************************************************)
(* Claims about the history (checked under SpecHistory)                    *)
(***************************************************************************)
StreamEnc(g) == boardToBigNum(hWidth, hHeight, StreamBoard(g))

Min(a, b) == IF a < b THEN a ELSE b

BackendNames == {"function", "array", "store"}

\* subtractBoard(boardA, boardB) asked at every probe
ApplySubtract ==
    /\ bOut.op = "none"
    /\ bOut' = [op |-> "subtract",
                diff |-> [p \in BoardProbes(bWidth, bHeight) |->
                             subtractBoard(boardA, boardB, p)]]
    /\ UNCHANGED <<bWidth, bHeight, boardA, boardB, advVars, parseVars, runVars, histVars,
                   randVars, editVars, finVars>>

\* pickBackend(name, bWidth, bHeight), and for a name it knows the strategy
\* applied once to boardA
ApplyPickBackend ==
    /\ bOut.op = "none"
    /\ \E name \in BackendNames :
          bOut' = [op |-> "pickBackend", name |-> name,
                   out |-> pickBackend(name, bWidth, bHeight, conwayRule, boardA)]
    /\ UNCHANGED <<bWidth, bHeight, boardA, boardB, advVars, parseVars, runVars, histVars,
                   randVars, editVars, finVars>>

\* updateCell given, at every probe, boardB's state and the difference that
\* subtractBoard(boardA, boardB) computed there
ApplyUpdateCell ==
    /\ bOut.op = "none"
    /\ bOut' = [op |-> "updateCell",
                after |-> [p \in BoardProbes(bWidth, bHeight) |->
                              updateCell(At(boardB, p),
                                         Some(subtractBoard(boardA, boardB, p)))]]
    /\ UNCHANGED <<bWidth, bHeight, boardA, boardB, advVars, parseVars, runVars, histVars,
                   randVars, editVars, finVars>>

\* the bWidth x bHeight buffer holding boardA's window, row after row
BufferOf(width, height, board) ==
    [width |-> width, height |-> height,
     cells |-> [i \in 1..(width * height) |->
                   At(board, Point((i - 1) % width, (i - 1) \div width))]]

\* advanceStore(rule)(getStore(buffer)) peeked at every point of the window
ApplyAdvanceStore ==
    /\ bOut.op = "none"
    /\ \E rule \in Rules :
          bOut' = [op |-> "advanceStore", rule |-> rule,
                   next |-> [p \in Window(bWidth, bHeight) |->
                                advanceStore(rule,
                                    getStore(BufferOf(bWidth, bHeight, boardA)), p)]]
    /\ UNCHANGED <<bWidth, bHeight, boardA, boardB, advVars, parseVars, runVars, histVars,
                   randVars, editVars, finVars>>

CellsNext ==
    \/ ApplySubtract
    \/ ApplyPickBackend
    \/ ApplyUpdateCell
    \/ ApplyAdvanceStore

SpecCells == BoardInit /\ [][CellsNext]_vars

(***************************************************************************)
(* Claims about differences and strategies (checked under SpecCells)       *)
(***************************************************************************)
\* C22: at every point p, subtractBoard(a,b)(p) is Birth exactly when a(p) is
\* Living and b(p) is Dead, Death exactly when a(p) is Dead and b(p) is
\* Living, and NoChange exactly when a(p) = b(p).
C22_SubtractBoardIsThePointwiseDifference ==
    bOut.op = "subtract" =>
        \A p \in BoardProbes(bWidth, bHeight) :
            /\ bOut.diff[p] = Birth <=> (At(boardA, p) = Living /\ At(boardB, p) = Dead)
            /\ bOut.diff[p] = Death <=> (At(boardA, p) = Dead /\ At(boardB, p) = Living)
            /\ bOut.diff[p] = NoChange <=> (At(boardA, p) = At(boardB, p))

\* C22 witness: a difference in which some cell is born, some cell dies, a
\* Living cell stays and a Dead cell stays
C22_Witness ==
    /\ bOut.op = "subtract"
    /\ \E p, q, r, t \in BoardProbes(bWidth, bHeight) :
          /\ bOut.diff[p] = Birth
          /\ bOut.diff[q] = Death
          /\ bOut.diff[r] = NoChange /\ At(boardA, r) = Living
          /\ bOut.diff[t] = NoChange /\ At(boardA, t) = Dead

\* C23: a strategy name that is neither known backend is answered with an
\* explicit failure result, and no exception is raised for it.
C23_UnknownBackendIsAFailureResult ==
    (bOut.op = "pickBackend" /\ bOut.name \notin {"function", "array"}) =>
        bOut.out.tag = "left"

\* C29: applying a computed difference restores the newer state: for all
\* cell states a and b, updateCell(b, Some(subtractState(a,b))) = a; in
\* particular updateCell(s, Some(NoChange)) = s.
C29_ApplyingTheDifferenceRestoresTheNewerState ==
    bOut.op = "updateCell" =>
        \A p \in BoardProbes(bWidth, bHeight) : bOut.after[p] = At(boardA, p)

\* the board that equals the buffer inside the window and is Dead outside it
BoardOfBuffer(b) ==
    [bg |-> Dead,
     ex |-> {p \in Window(b.width, b.height) : b.cells[p.y * b.width + p.x + 1] = Living}]

\* C30: for a width x height buffer and any rule, advanceStore over getStore
\* yields at every point inside the window the state recursiveAdvance yields
\* there for the board that equals the buffer inside the window and is Dead
\* outside it.
C30_StoreAdvanceAgreesWithRecursiveAdvance ==
    bOut.op = "advanceStore" =>
        \A p \in Window(bWidth, bHeight) :
            bOut.next[p] =
                At(recursiveAdvance(bOut.rule,
                       BoardOfBuffer(BufferOf(bWidth, bHeight, boardA))), p)

(***************************************************************************)
(* manuallySpecifiedBoard fed keypresses                                   *)
(***************************************************************************)
\* keypresses the terminal can deliver: the editor's keys, a key it does not
\* know, and Ctrl-C
Keypresses ==
    {[key |-> [name |-> n, ctrl |-> FALSE]] :
        n \in {"left", "right", "up", "down", "space", "q", "x"}}
        \cup {[key |-> [name |-> "c", ctrl |-> TRUE]]}

EditInit ==
    /\ \E wh \in {<<1, 1>>, <<2, 2>>, <<3, 2>>} : eWidth = wh[1] /\ eHeight = wh[2]
    /\ ePc = "setup"
    /\ eState = None
    /\ eKeys = <<>>
    /\ eSteps = <<>>
    /\ eResult = None
    /\ AdvIdle /\ ParseIdle /\ RunIdle /\ BoardIdle /\ HistIdle
    /\ RandIdle /\ FinIdle

\* renderer.setup, then the stream starts folding from newEditor
EditorSetup ==
    /\ ePc = "setup"
    /\ ePc' = "editing"
    /\ eState' = Some(newEditor)
    /\ UNCHANGED <<eWidth, eHeight, eKeys, eSteps, eResult, advVars, parseVars,
                   runVars, boardVars, histVars, randVars, finVars>>

\* one keypress event carried through the whole pipeline: Ctrl-C ends the
\* stream, so Sink.head answers none and the default is taken; a key that is
\* no command is filtered out; a command is applied, the state rendered, and
\* a done state becomes the result
Keypress ==
    /\ ePc = "editing"
    /\ Len(eKeys) < MaxKeys
    /\ \E press \in Keypresses :
          /\ eKeys' = Append(eKeys, press.key)
          /\ IF press.key.name = "c" /\ press.key.ctrl
             THEN /\ eResult' = Some(emptyBoard)
                  /\ ePc' = "cleanup"
                  /\ UNCHANGED <<eState, eSteps>>
             ELSE IF isNone(parseKeypress(press))
             THEN UNCHANGED <<eState, eSteps, eResult, ePc>>
             ELSE LET next == applyCommand(eState.value, parseKeypress(press).value)
                  IN  /\ eState' = Some(next)
                      /\ eSteps' = Append(eSteps, boardOfArray(next.living))
                      /\ IF next.done
                         THEN /\ eResult' = Some(boardOfArray(next.living))
                              /\ ePc' = "cleanup"
                         ELSE UNCHANGED <<eResult, ePc>>
    /\ UNCHANGED <<eWidth, eHeight, advVars, parseVars, runVars, boardVars,
                   histVars, randVars, finVars>>

\* Effect.tap(renderer.cleanup)
EditorCleanup ==
    /\ ePc = "cleanup"
    /\ ePc' = "done"
    /\ UNCHANGED <<eWidth, eHeight, eState, eKeys, eSteps, eResult, advVars,
                   parseVars, runVars, boardVars, histVars, randVars, finVars>>

EditNext ==
    \/ EditorSetup
    \/ Keypress
    \/ EditorCleanup

SpecEditor == EditInit /\ [][EditNext]_vars

(***************************************************************************)
(* Claims about the editor (checked under SpecEditor)                      *)
(***************************************************************************)
\* C24: after any sequence of move, toggle and quit commands starting from
\* cursor (0,0), the cursor stays inside the board: 0 <= cursor.x < width and
\* 0 <= cursor.y < height.
C24_CursorStaysInsideTheBoard ==
    isSome(eState) =>
        /\ 0 <= eState.value.cursor.x /\ eState.value.cursor.x < eWidth
        /\ 0 <= eState.value.cursor.y /\ eState.value.cursor.y < eHeight

\* C25: the command stream cannot end before it has produced a state with
\* done = true: the result of manuallySpecifiedBoard is always the board whose
\* Living cells are the points toggled on at the first quit command, and never
\* the empty-board default when cells had been toggled on.
C25_ResultIsTheBoardAtTheFirstQuit ==
    isSome(eResult) =>
        /\ eState.value.done
        /\ eResult.value = boardOfArray(eState.value.living)

(***************************************************************************)
(* finally_(handler)(program), in the two versions of the source           *)
(***************************************************************************)
\* the versions of finally_: 8 is src/unnamed/part_008, 9 src/unnamed/part_009
FinallyVersions == {8, 9}

\* ways program can end
ProgramExits ==
    {succeed(r) : r \in {"cycle", "limited", "none"}}
        \cup {fail(e) : e \in {"step failed", "setup failed", "report failed"}}
        \cup {die(d) : d \in {"zoops", "getOrThrow"}}

\* ways handler can end
HandlerExits == {succeed("void"), fail("cleanup failed"), die("cleanup threw")}

FinInit ==
    /\ fVersion \in FinallyVersions
    /\ fProgram \in {Some(x) : x \in ProgramExits}
    /\ fHandler \in {Some(x) : x \in HandlerExits}
    /\ fPc = "program"
    /\ fLog = <<>>
    /\ fResult = None
    /\ AdvIdle /\ ParseIdle /\ RunIdle /\ BoardIdle /\ HistIdle
    /\ RandIdle /\ EditIdle

\* pipe(program, Effect.either): program runs to its end; a defect passes
\* Effect.either and ends the whole effect
FinallyProgram ==
    /\ fPc = "program"
    /\ fLog' = Append(fLog, [ran |-> "program", exit |-> fProgram.value])
    /\ IF either(fProgram.value).tag = "success"
       THEN fPc' = "handler" /\ UNCHANGED fResult
       ELSE fPc' = "done" /\ fResult' = Some(either(fProgram.value))
    /\ UNCHANGED <<fVersion, fProgram, fHandler, advVars, parseVars, runVars,
                   boardVars, histVars, randVars, editVars>>

\* handler runs; its failure ends the whole effect
FinallyHandler ==
    /\ fPc = "handler"
    /\ fLog' = Append(fLog, [ran |-> "handler", exit |-> fHandler.value])
    /\ IF fHandler.value.tag = "success"
       THEN fPc' = "result" /\ UNCHANGED fResult
       ELSE fPc' = "done" /\ fResult' = fHandler
    /\ UNCHANGED <<fVersion, fProgram, fHandler, advVars, parseVars, runVars,
                   boardVars, histVars, randVars, editVars>>

\* the step after handler gives program's outcome back
FinallyResult ==
    /\ fPc = "result"
    /\ fPc' = "done"
    /\ fResult' = Some(IF fVersion = 8
                       THEN andThenResult(either(fProgram.value).value)
                       ELSE andThenThrowing(either(fProgram.value).value))
    /\ UNCHANGED <<fVersion, fProgram, fHandler, fLog, advVars, parseVars, runVars,
                   boardVars, histVars, randVars, editVars>>

FinNext ==
    \/ FinallyProgram
    \/ FinallyHandler
    \/ FinallyResult

SpecFinally == FinInit /\ [][FinNext]_vars

(***************************************************************************)
(* Claims about finally_ (checked under SpecFinally)                       *)
(***************************************************************************)
\* C26: finally_(cleanup)(program) runs cleanup after program has ended, both
\* when program succeeds and when it fails, never before; with cleanup itself
\* succeeding, if program failed the combined effect fails with program's
\* error after cleanup has run, and if program succeeded it yields program's
\* result.
C26_CleanupFollowsProgramAndKeepsItsOutcome ==
    /\ \A i \in DOMAIN fLog : fLog[i].ran = "handler" => (i > 1 /\ fLog[1].ran = "program")
    /\ (fPc = "done" /\ fProgram.value.tag \in {"success", "failure"}
            /\ fHandler.value.tag = "success") =>
          /\ Len(fLog) = 2
          /\ fLog[2].ran = "handler"
          /\ fResult = fProgram

(***************************************************************************)
(* randomBoard with a random source that returns any numbers               *)
(***************************************************************************)
\* numbers the random source returns: only their order matters to shuffle
RandomValues == {0, 1, 2}

RandInit ==
    /\ rWidth \in 1..MaxArea
    /\ rHeight \in 1..MaxArea
    /\ rWidth * rHeight <= MaxArea
    /\ rCount \in 0..(MaxCells + 1)
    /\ rDrawn = <<>>
    /\ rOut = None
    /\ AdvIdle /\ ParseIdle /\ RunIdle /\ BoardIdle /\ HistIdle
    /\ EditIdle /\ FinIdle

\* one evaluation of prng by Effect.replicateEffect(xs.length)
DrawRandom ==
    /\ rOut = None
    /\ Len(rDrawn) < rWidth * rHeight
    /\ \E v \in RandomValues : rDrawn' = Append(rDrawn, v)
    /\ UNCHANGED <<rWidth, rHeight, rCount, rOut, advVars, parseVars, runVars,
                   boardVars, histVars, editVars, finVars>>

\* the rest of randomBoard: shuffle's sort, take and reduce(emptyBoard, birth)
ReturnRandomBoard ==
    /\ rOut = None
    /\ Len(rDrawn) = rWidth * rHeight
    /\ rOut' = Some([shuffled |->
                        shuffle(rDrawn, cartesianPoints(range(0, rWidth - 1),
                                                        range(0, rHeight - 1))),
                     board |-> randomBoard(rWidth, rHeight, rCount, rDrawn)])
    /\ UNCHANGED <<rWidth, rHeight, rCount, rDrawn, advVars, parseVars, runVars,
                   boardVars, histVars, editVars, finVars>>

RandNext ==
    \/ DrawRandom
    \/ ReturnRandomBoard

SpecRandom == RandInit /\ [][RandNext]_vars

(***************************************************************************)
(* Claims about randomBoard (checked under SpecRandom)                     *)
(***************************************************************************)
\* C21: whatever numbers the random source returns, shuffle returns a
\* permutation of the window's coordinates, and randomBoard(width,height,
\* count,prng), width,height >= 1 and count >= 0, has exactly
\* min(count, width*height) Living cells, all inside the window, and is Dead
\* everywhere else; count = 0 gives the all-Dead board.
C21_RandomBoardHasCountCellsInTheWindow ==
    isSome(rOut) =>
        LET shuffled == rOut.value.shuffled
            board == rOut.value.board
        IN  /\ Len(shuffled) = rWidth * rHeight
            /\ \A p \in Window(rWidth, rHeight) :
                  Cardinality({i \in DOMAIN shuffled : shuffled[i] = p}) = 1
            /\ board.bg = Dead
            /\ Cardinality(board.ex) = Min(rCount, rWidth * rHeight)
            /\ board.ex \subseteq Window(rWidth, rHeight)
            /\ rCount = 0 => board = emptyBoard

\* C21 witness: the random source returned the same number twice, the
\* coordinates came out in another order, and some but not all cells of the
\* window were made Living
C21_Witness ==
    /\ isSome(rOut)
    /\ \E i, j \in DOMAIN rDrawn : i # j /\ rDrawn[i] = rDrawn[j]
    /\ rOut.value.shuffled #
          cartesianPoints(range(0, rWidth - 1), range(0, rHeight - 1))
    /\ rCount >= 2
    /\ rCount < rWidth * rHeight
    /\ Cardinality(rOut.value.board.ex) = rCount

(***************************************************************************)
(* Claims about what the cycle history holds (checked under Spec)          *)
(***************************************************************************)
\* p is the first generation after 0 whose board is the initial board again
ReturnsAfter(p) ==
    /\ p >= 1
    /\ p + 1 <= Len(gens)
    /\ BoardOfGen(p) = BoardOfGen(0)
    /\ \A q \in 1..(p - 1) : BoardOfGen(q) # BoardOfGen(0)

\* the history holds the encodings of generations 1, 2, ... only, newest first
HistoryStartsAtGenerationOne ==
    /\ Len(recent) <= Len(sims)
    /\ \A i \in DOMAIN recent : recent[i] = EncOfGen(Len(recent) - i + 1)

\* generations 1..p are Incomplete and generation p+1 is a Cycle of length p
ReportedOneGenerationLate(p) ==
    /\ \A g \in 1..p : g <= Len(sims) => sims[g].tag = "incomplete"
    /\ p + 1 <= Len(sims) => (sims[p + 1].tag = "cycle" /\ sims[p + 1].length = p)

\* C27 (as claimed): the encoding of generation 0 is never entered in the
\* history, so a run whose board returns to the initial board after p
\* generations, with a turn limit above p, is not reported at generation p
\* but at generation p+1, as a Cycle of length p.
C27_ReturnToInitialBoardReportedOneLate ==
    /\ HistoryStartsAtGenerationOne
    /\ \A p \in 1..MaxGen :
          (ReturnsAfter(p) /\ opts.maxTurns > p) => ReportedOneGenerationLate(p)

\* C27 (amended): the encoding of generation 0 is never entered in the
\* history, so a run whose board returns to the initial board after p
\* generations, p no more than the history holds, generations 1..p differing
\* pairwise inside the window, with a turn limit above p, is not reported at
\* generation p but at generation p+1, as a Cycle of length p.
C27_InitialBoardIsNeverInTheHistory ==
    /\ HistoryStartsAtGenerationOne
    /\ \A p \in 1..MaxGen :
          (/\ ReturnsAfter(p)
           /\ p <= HistorySize
           /\ NoMatchUpTo(p)
           /\ opts.maxTurns > p) => ReportedOneGenerationLate(p)

\* C27 witness: a run whose board came back to the initial board after two
\* generations, differing from it in the window in between, has ended with
\* the Cycle of generation 3
C27_Witness ==
    /\ pc = "done"
    /\ ReturnsAfter(2)
    /\ NoMatchUpTo(2)
    /\ opts.maxTurns > 2
    /\ Len(sims) = 3
    /\ sims[2].tag = "incomplete"
    /\ result.value.tag = "cycle"
    /\ result.value.length = 2
    /\ EncOfGen(2) = EncOfGen(0)

\* the generation a Cycle emitted at generation k was matched with
MatchedGen(k) == k - sims[k].length

\* C28 (as claimed): whenever Cycle with length L is emitted at generation g,
\* the boards of generation g and generation g-L are equal at every point of
\* the plane, with either backend.
C28_CycleMeansEqualOnThePlane ==
    \A k \in DOMAIN sims :
        sims[k].tag = "cycle" => BoardOfGen(k) = BoardOfGen(MatchedGen(k))

\* C28 (amended): whenever Cycle with length L is emitted at generation g, the
\* boards of generation g and generation g-L are equal at every point of the
\* width x height window, with either backend; with the "array" backend they
\* are equal at every point of the plane.
C28_CycleMeansEqualInTheWindow ==
    \A k \in DOMAIN sims :
        sims[k].tag = "cycle" =>
            /\ MatchedGen(k) >= 1
            /\ SameInWindow(opts.width, opts.height,
                            BoardOfGen(k), BoardOfGen(MatchedGen(k)))
            /\ opts.backend = "array" => BoardOfGen(k) = BoardOfGen(MatchedGen(k))

\* C28 witness: a run with the "function" backend has ended with a Cycle of
\* two boards that have Living cells in the window and differ outside it
C28_Witness ==
    /\ pc = "done"
    /\ opts.backend = "function"
    /\ result.value.tag = "cycle"
    /\ LET k == result.value.value.iteration
       IN  /\ BoardOfGen(k) # BoardOfGen(MatchedGen(k))
           /\ EncOfGen(k) # <<>>

Init == RunInit

Next == RunNext

Spec == Init /\ [][Next]_vars

\* A step of the run, seen on pc alone.  Every action of Next is guarded by
\* its value of pc and nothing else, and changes pc: a step of Next can be
\* taken exactly when pc is not "done", and taking it is a change of pc.
RunStep ==
    /\ pc \in {"start", "pull", "render", "check", "report", "cleanup"}
    /\ pc' \in {"pull", "render", "check", "report", "cleanup", "done"} \ {pc}

\* the run as the Effect runtime executes it: a step that can be taken is
\* taken (weak fairness of Next, stated on pc)
SpecLive == Init /\ [][Next]_vars /\ WF_pc(RunStep)

(***************************************************************************)
(* Termination of the driver (checked under SpecLive)                      *)
(***************************************************************************)
Completions == {k \in DOMAIN sims : isComplete(sims[k])}

\* what holds of a run with maxTurns >= 1 at every moment
RunCompletesOnce ==
    opts.maxTurns >= 1 =>
        /\ Len(sims) <= opts.maxTurns
        /\ Len(gens) <= opts.maxTurns + 1
        /\ Cardinality(Completions) <= 1
        /\ isSome(result) <=> Completions # {}
        /\ isSome(result) =>
              /\ Completions = {Len(sims)}
              /\ result.value = Last(sims)
              /\ result.value.tag \in {"cycle", "limited"}
              /\ result.value.value.iteration <= opts.maxTurns

\* a step after the completion leaves the generations, the renderings and
\* the classifications as they are
QuietAfterCompletion ==
    (opts.maxTurns >= 1 /\ isSome(result)) =>
        /\ gens' = gens
        /\ stepCalls' = stepCalls
        /\ sims' = sims
        /\ result' = result

RunStarted == pc = "start" /\ opts.maxTurns >= 1

RunEnded == pc = "done" /\ isSome(result) /\ isSome(report)

\* C18: with maxTurns >= 1 the run ends; checkCompletion emits exactly one
\* completion, a Cycle or a Limited, at generation maxTurns at the latest;
\* and once it is emitted no generation is advanced, rendered or checked.
C18_RunEndsWithOneCompletionByMaxTurns ==
    /\ []RunCompletesOnce
    /\ [][QuietAfterCompletion]_vars
    /\ RunStarted ~> RunEnded

\* C18 witness: a run with maxTurns >= 3 has ended, at its last permitted
\* generation, after advancing and rendering that many generations
C18_Witness ==
    /\ pc = "done"
    /\ opts.maxTurns >= 3
    /\ isSome(result)
    /\ result.value.value.iteration = opts.maxTurns
    /\ Len(gens) = opts.maxTurns + 1
    /\ Len(stepCalls) = opts.maxTurns
=============================================================================
